---- MODULE Spec2Model ----
(***************************************************************************)
(* The F1 API of src/main.py: a FastAPI application that proxies the       *)
(* Ergast API (seasons, drivers, constructors, races, race results), keeps *)
(* two collections of favorites in a document store, and reports          *)
(* diagnostics.                                                            *)
(*                                                                         *)
(* Every endpoint is a plain def, which FastAPI runs in a worker thread.   *)
(* A request is received on the event loop (routed and validated) and its  *)
(* endpoint handed to a thread; the thread sends the upstream call, waits  *)
(* for it, stores and returns; the event loop then writes the response.    *)
(* Between any two of these steps other requests move on.                  *)
(*                                                                         *)
(* Python values: a dict is a function on its keys, a list is a sequence,  *)
(* None is the value None below.  The emoji of the diagnostics strings are *)
(* written by their code points (U+2705 and so on).                        *)
(***************************************************************************)
EXTENDS Integers, Sequences, FiniteSets, TLC

VARIABLES
    utc_year,             \* datetime.utcnow().year
    db,                   \* database.db: None or the storage handle
    environ,              \* os.environ
    favoritedriver,       \* the documents of collection "favoritedriver"
    favoriteconstructor,  \* the documents of collection "favoriteconstructor"
    next_oid,             \* the next identifier the storage assigns
    posted,               \* the favorites stored so far, each with its response
    conn                  \* per client: the request in flight, how far it got

vars == <<utc_year, db, environ, favoritedriver, favoriteconstructor,
          next_oid, posted, conn>>

----------------------------------------------------------------------------
(* Bounds of the model *)

MaxYearsAhead == 1
MaxItems == 1
MaxFavorites == 2
MaxCollections == 11

\* the clients, each with one request in flight at most
Clients == {"a", "b"}

----------------------------------------------------------------------------
(* Python values and built-ins *)

None == "<None>"
EmptyDict == [k \in {} |-> None]

Min(a, b) == IF a < b THEN a ELSE b
Max(a, b) == IF a > b THEN a ELSE b

DigitChars == <<"0", "1", "2", "3", "4", "5", "6", "7", "8", "9">>

RECURSIVE NatStr(_)
NatStr(n) == IF n < 10 THEN DigitChars[n + 1]
             ELSE NatStr(n \div 10) \o DigitChars[(n % 10) + 1]

\* str(n) of an int
str(n) == IF n < 0 THEN "-" \o NatStr(-n) ELSE NatStr(n)

\* d.get(key, default)
Get(d, key, default) == IF key \in DOMAIN d THEN d[key] ELSE default

\* s[start:stop], on a list or a string
PySlice(s, start, stop) ==
    LET n == Len(s)
        norm(i) == IF i < 0 THEN Max(i + n, 0) ELSE Min(i, n)
        lo == norm(start)
        hi == norm(stop)
    IN  IF lo < hi THEN SubSeq(s, lo + 1, hi) ELSE SubSeq(s, 1, 0)

\* bool(v) of an optional string
Truthy(v) == v # None /\ v # ""

----------------------------------------------------------------------------
(* Texts.  The text of a path segment or of a query value is the sequence  *)
(* of the code points of its characters, so that every character can be    *)
(* written: <<8195, 49, 50>> is "12" after an em space.  Text(s) is the    *)
(* text of a string of ASCII characters.                                   *)

Char(s, i) == SubSeq(s, i, i)

\* the characters of code points 32 to 95, and 97 to 126
Printable == " !\"#$%&'()*+,-./0123456789:;<=>?@ABCDEFGHIJKLMNOPQRSTUVWXYZ[\\]^_"
Lowercase == "abcdefghijklmnopqrstuvwxyz{|}~"

\* the code points of the characters of a string, which follow one another
\* from base on
RECURSIVE Codes(_, _)
Codes(chars, base) ==
    IF Len(chars) = 0 THEN EmptyDict
    ELSE (Char(chars, 1) :> base) @@ Codes(SubSeq(chars, 2, Len(chars)), base + 1)

CodePoints ==
    ("\t" :> 9) @@ ("\n" :> 10) @@ ("\f" :> 12) @@ ("\r" :> 13)
    @@ Codes(Printable, 32) @@ Codes(Lowercase, 97)

\* ord(ch) of a character
ord(ch) == CodePoints[ch]

RECURSIVE Text(_)
Text(s) == IF Len(s) = 0 THEN <<>>
           ELSE <<ord(Char(s, 1))>> \o Text(SubSeq(s, 2, Len(s)))

----------------------------------------------------------------------------
(* The validation of a parameter declared int, from the text of the path   *)
(* or of the query string, as pydantic reads a string in lax mode.  The    *)
(* text is trimmed of whitespace and of one sign; its leading zeros and    *)
(* underscores go, then a fraction of zeros, then single underscores       *)
(* between digits; what is left must be an integer as JSON writes it.      *)
(* " 12", "1_000", "1.0", "007" and "0__1" are 12, 1000, 1, 7 and 1;       *)
(* "1.", "1__0" and "0_" are no numbers.                                   *)

\* White_Space of Unicode: what str.trim() of Rust removes
Whitespace ==
    (9..13) \cup {32, 133, 160, 5760} \cup (8192..8202)
    \cup {8232, 8233, 8239, 8287, 12288}

IsDigit(ch) == ch \in 48..57

RECURSIVE Trim(_)
Trim(s) == IF Len(s) > 0 /\ s[1] \in Whitespace THEN Trim(Tail(s))
           ELSE IF Len(s) > 0 /\ s[Len(s)] \in Whitespace
           THEN Trim(SubSeq(s, 1, Len(s) - 1))
           ELSE s

\* the text is "+..." or "-..."
IsSigned(s) == Len(s) > 0 /\ s[1] \in {43, 45}
Unsigned(s) == IF IsSigned(s) THEN Tail(s) ELSE s

\* what no step accepts: a text of no character pydantic reads
Invalid == <<-1>>

\* The text from its first digit that is not a leading zero.  After a
\* leading zero, zeros and underscores are skipped up to a digit 1..9 or a
\* "-", from which the text goes on, or up to a ".", before which one
\* character is kept; a text of zeros and underscores only is left with its
\* last character.
StripLeadingZeros(s) ==
    LET stops == {i \in 2..Len(s) : s[i] \notin {48, 95}}
        stop == CHOOSE i \in stops : \A j \in stops : i <= j
    IN  IF Len(s) = 0 THEN Invalid
        ELSE IF s[1] \in 49..57 THEN s
        ELSE IF s[1] # 48 THEN Invalid
        ELSE IF stops = {} THEN SubSeq(s, Len(s), Len(s))
        ELSE IF s[stop] \in 49..57 \/ s[stop] = 45 THEN SubSeq(s, stop, Len(s))
        ELSE IF s[stop] = 46 THEN SubSeq(s, stop - 1, Len(s))
        ELSE Invalid

\* the text before its first ".", when zeros, one at least, and only zeros
\* follow it
StripDecimalZeros(s) ==
    LET dots == {i \in 1..Len(s) : s[i] = 46}
        first == CHOOSE i \in dots : \A j \in dots : i <= j
    IN  IF dots = {} THEN s
        ELSE IF first < Len(s) /\ \A j \in (first + 1)..Len(s) : s[j] = 48
        THEN SubSeq(s, 1, first - 1)
        ELSE Invalid

\* the text without its underscores, which stand singly and inside it
StripUnderscores(s) ==
    IF \A i \in 1..Len(s) : s[i] # 95 THEN s
    ELSE IF \/ s[1] = 95
            \/ s[Len(s)] = 95
            \/ \E i \in 1..(Len(s) - 1) : s[i] = 95 /\ s[i + 1] = 95
    THEN Invalid
    ELSE SelectSeq(s, LAMBDA ch : ch # 95)

\* the text pydantic hands to its integer parser, sign included
CleanIntStr(s) ==
    LET t == Trim(s)
        u == StripUnderscores(StripDecimalZeros(StripLeadingZeros(Unsigned(t))))
    IN  IF IsSigned(t) /\ t[1] = 45 THEN <<45>> \o u ELSE u

\* an integer as JSON writes it: -?(0|[1-9][0-9]*)
IsJsonInt(s) ==
    LET u == IF Len(s) > 0 /\ s[1] = 45 THEN Tail(s) ELSE s
    IN  /\ Len(u) > 0
        /\ \A i \in 1..Len(u) : IsDigit(u[i])
        /\ Len(u) > 1 => u[1] # 48

\* the number the digits of s write
RECURSIVE DigitsValue(_)
DigitsValue(s) ==
    IF Len(s) = 0 THEN 0
    ELSE DigitsValue(SubSeq(s, 1, Len(s) - 1)) * 10 + (s[Len(s)] - 48)

IsIntText(s) == IsJsonInt(CleanIntStr(s))

\* the int of a text that IsIntText accepts
IntValue(s) ==
    LET t == CleanIntStr(s)
    IN  IF t[1] = 45 THEN 0 - DigitsValue(Tail(t)) ELSE DigitsValue(t)

----------------------------------------------------------------------------
(* JSON.  A JSON value carries its type, so that the code's tests on it    *)
(* can be told apart: null, a boolean, a number, a string, a list or an    *)
(* object; the field that holds the value is named after the type.  A      *)
(* number is an integer: the code tests a number for its truth only, and   *)
(* a fraction is read as a whole number other than 0 is.                   *)

JNull == [type |-> "null"]
JBool(b) == [type |-> "bool", bool |-> b]
JInt(n) == [type |-> "int", int |-> n]
JStr(s) == [type |-> "str", str |-> s]
JList(l) == [type |-> "list", list |-> l]
JDict(d) == [type |-> "dict", dict |-> d]

\* a request without a body; a response whose body is no JSON
NoBody == [type |-> "absent"]
Undecodable == [type |-> "undecodable"]

\* the Python value of a JSON value
RECURSIVE Py(_)
Py(j) == CASE j.type \in {"null", "absent"} -> None
           [] j.type = "bool" -> j.bool
           [] j.type = "int" -> j.int
           [] j.type = "str" -> j.str
           [] j.type = "list" -> [i \in 1..Len(j.list) |-> Py(j.list[i])]
           [] j.type = "dict" -> [k \in DOMAIN j.dict |-> Py(j.dict[k])]

\* What an expression comes to: a value, or the exception it raises.  The
\* operations below take such a result and pass an exception on.
Value(v) == [kind |-> "value", value |-> v]
Exception(name) == [kind |-> name]

\* d.get(key, default): only a dict has get
dict_get(d, key, default) ==
    IF d.kind # "value" THEN d
    ELSE IF d.value.type # "dict" THEN Exception("AttributeError")
    ELSE Value(IF key \in DOMAIN d.value.dict THEN d.value.dict[key] ELSE default)

\* len(x): of a list, a string or a dict
len(x) ==
    IF x.kind # "value" THEN x
    ELSE CASE x.value.type = "list" -> Value(Len(x.value.list))
           [] x.value.type = "str" -> Value(Len(x.value.str))
           [] x.value.type = "dict" -> Value(Cardinality(DOMAIN x.value.dict))
           [] OTHER -> Exception("TypeError")

\* bool(j): the truth value of "if j"
bool(j) ==
    CASE j.type = "null" -> FALSE
      [] j.type = "bool" -> j.bool
      [] j.type = "int" -> j.int # 0
      [] j.type = "str" -> Len(j.str) > 0
      [] j.type = "list" -> Len(j.list) > 0
      [] j.type = "dict" -> DOMAIN j.dict # {}

\* x[0]: the first item of a list, the first character of a string; the
\* keys of a JSON object are strings, none is 0
getitem_0(x) ==
    IF x.kind # "value" THEN x
    ELSE CASE x.value.type = "list" ->
                  IF Len(x.value.list) > 0 THEN Value(x.value.list[1])
                  ELSE Exception("IndexError")
           [] x.value.type = "str" ->
                  IF Len(x.value.str) > 0 THEN Value(JStr(Char(x.value.str, 1)))
                  ELSE Exception("IndexError")
           [] x.value.type = "dict" -> Exception("KeyError")
           [] OTHER -> Exception("TypeError")

\* x[key] for a string key: only a dict has string keys
getitem(x, key) ==
    IF x.kind # "value" THEN x
    ELSE IF x.value.type # "dict" THEN Exception("TypeError")
    ELSE IF key \notin DOMAIN x.value.dict THEN Exception("KeyError")
    ELSE Value(x.value.dict[key])

----------------------------------------------------------------------------
(* The upstream client *)

ERGAST_BASE == "https://ergast.com/api/f1"
timeout == 15
start_year == 1950

\* What a handler's run comes to: a returned value or a raised exception,
\* with the upstream requests it sent and the documents it stored.
Return(value, sent, writes) ==
    [kind |-> "return", value |-> value, sent |-> sent, writes |-> writes]
Raise(status_code, detail, sent) ==
    [kind |-> "HTTPException", status_code |-> status_code, detail |-> detail,
     sent |-> sent, writes |-> <<>>]
Crash(exception, sent) ==
    [kind |-> exception, sent |-> sent, writes |-> <<>>]

fetch_ergast_retry(endpoint, params, reply) ==
    LET get == [url |-> ERGAST_BASE \o "/" \o endpoint \o ".json",
                params |-> params, timeout |-> timeout]
    IN  IF reply.kind = "RequestException"
        THEN Raise(503, "External data source unavailable: ergast.com", <<get, get>>)
        ELSE IF reply.status_code # 200
        THEN Raise(502, "Upstream error " \o str(reply.status_code), <<get>>)
        ELSE IF reply.json.type = "undecodable"
        THEN Raise(503, "External data source unavailable: ergast.com", <<get>>)
        ELSE Return(reply.json, <<get>>, <<>>)

fetch_ergast_same_status(endpoint, params, reply) ==
    LET get == [url |-> ERGAST_BASE \o "/" \o endpoint \o ".json",
                params |-> params, timeout |-> timeout]
    IN  IF reply.kind = "RequestException"
        THEN Raise(503, "External data source unavailable: ergast.com", <<get>>)
        ELSE IF reply.status_code # 200
        THEN Raise(reply.status_code, "Upstream error " \o str(reply.status_code), <<get>>)
        ELSE IF reply.json.type = "undecodable"
        THEN Raise(503, "External data source unavailable: ergast.com", <<get>>)
        ELSE Return(reply.json, <<get>>, <<>>)

\* reply is what requests.get comes to: a RequestException, or a response
\* with its status_code and, when 200, its body: a JSON value or a text
\* that is no JSON.  r.json() stands inside the try: of a body that is no
\* JSON it raises requests' JSONDecodeError, a RequestException since
\* requests 2.27, which is caught as the transport failures are.
fetch_ergast(endpoint, params, reply) ==
    LET get == [url |-> ERGAST_BASE \o "/" \o endpoint \o ".json",
                params |-> params, timeout |-> timeout]
    IN  IF reply.kind = "RequestException"
        THEN Raise(503, "External data source unavailable: ergast.com", <<get>>)
        ELSE IF reply.status_code # 200
        THEN Raise(502, "Upstream error " \o str(reply.status_code), <<get>>)
        ELSE IF reply.json.type = "undecodable"
        THEN Raise(503, "External data source unavailable: ergast.com", <<get>>)
        ELSE Return(reply.json, <<get>>, <<>>)

----------------------------------------------------------------------------
(* The offline fallback for seasons *)

seasons_list_without_current_year ==
    [i \in 1..(utc_year - start_year) |->
        [season |-> str(start_year + i - 1),
         url |-> "https://en.wikipedia.org/wiki/" \o str(start_year + i - 1)
                 \o "_Formula_One_World_Championship"]]

\* the loop over range(start_year, current_year + 1)
seasons_list ==
    [i \in 1..(utc_year + 1 - start_year) |->
        [season |-> str(start_year + i - 1),
         url |-> "https://en.wikipedia.org/wiki/" \o str(start_year + i - 1)
                 \o "_Formula_One_World_Championship"]]

offline_seasons(limit, offset) ==
    LET paged == PySlice(seasons_list, offset, offset + limit)
    IN  [count |-> Len(paged), items |-> paged, offline |-> TRUE]

----------------------------------------------------------------------------
(* The data endpoints.  Each reads the list of the upstream body with      *)
(* data.get("MRData", {}).get(table, {}).get(list, []) and takes its len;  *)
(* a level that is there and is no dict, or a list that has no len, raises *)
(* an exception no handler catches.                                        *)

\* data.get("MRData", {}).get(table, {}).get(list, [])
Listed(data, table, list) ==
    dict_get(dict_get(dict_get(Value(data), "MRData", JDict(EmptyDict)),
                      table, JDict(EmptyDict)),
             list, JList(<<>>))

list_seasons_default_page(limit, offset, reply) ==
    LET f == fetch_ergast("seasons", [limit |-> limit, offset |-> offset], reply)
        seasons == Listed(f.value, "SeasonTable", "Seasons")
        count == len(seasons)
    IN  IF f.kind = "return"
        THEN IF count.kind # "value" THEN Crash(count.kind, f.sent)
             ELSE Return([count |-> count.value, items |-> Py(seasons.value)],
                         f.sent, <<>>)
        ELSE IF f.status_code = 503
        THEN Return(offline_seasons(80, 0), f.sent, <<>>)
        ELSE f

list_seasons(limit, offset, reply) ==
    LET f == fetch_ergast("seasons", [limit |-> limit, offset |-> offset], reply)
        seasons == Listed(f.value, "SeasonTable", "Seasons")
        count == len(seasons)
    IN  IF f.kind = "return"
        THEN IF count.kind # "value" THEN Crash(count.kind, f.sent)
             ELSE Return([count |-> count.value, items |-> Py(seasons.value)],
                         f.sent, <<>>)
        ELSE IF f.status_code = 503
        THEN Return(offline_seasons(limit, offset), f.sent, <<>>)
        ELSE f

list_drivers_no_fallback(season, reply) ==
    LET f == fetch_ergast(str(season) \o "/drivers", None, reply)
        drivers == Listed(f.value, "DriverTable", "Drivers")
        count == len(drivers)
    IN  IF f.kind = "return"
        THEN IF count.kind # "value" THEN Crash(count.kind, f.sent)
             ELSE Return([season |-> season, count |-> count.value,
                          items |-> Py(drivers.value)], f.sent, <<>>)
        ELSE f

list_drivers(season, reply) ==
    LET f == fetch_ergast(str(season) \o "/drivers", None, reply)
        drivers == Listed(f.value, "DriverTable", "Drivers")
        count == len(drivers)
    IN  IF f.kind = "return"
        THEN IF count.kind # "value" THEN Crash(count.kind, f.sent)
             ELSE Return([season |-> season, count |-> count.value,
                          items |-> Py(drivers.value)], f.sent, <<>>)
        ELSE IF f.status_code = 503
        THEN Return([season |-> season, count |-> 0, items |-> <<>>, offline |-> TRUE],
                    f.sent, <<>>)
        ELSE f

list_constructors(season, reply) ==
    LET f == fetch_ergast(str(season) \o "/constructors", None, reply)
        constructors == Listed(f.value, "ConstructorTable", "Constructors")
        count == len(constructors)
    IN  IF f.kind = "return"
        THEN IF count.kind # "value" THEN Crash(count.kind, f.sent)
             ELSE Return([season |-> season, count |-> count.value,
                          items |-> Py(constructors.value)], f.sent, <<>>)
        ELSE IF f.status_code = 503
        THEN Return([season |-> season, count |-> 0, items |-> <<>>, offline |-> TRUE],
                    f.sent, <<>>)
        ELSE f

\* the endpoint is "{season}.json": fetch_ergast appends a second ".json"
list_races(season, reply) ==
    LET f == fetch_ergast(str(season) \o ".json", None, reply)
        races == Listed(f.value, "RaceTable", "Races")
        count == len(races)
    IN  IF f.kind = "return"
        THEN IF count.kind # "value" THEN Crash(count.kind, f.sent)
             ELSE Return([season |-> season, count |-> count.value,
                          items |-> Py(races.value)], f.sent, <<>>)
        ELSE IF f.status_code = 503
        THEN Return([season |-> season, count |-> 0, items |-> <<>>, offline |-> TRUE],
                    f.sent, <<>>)
        ELSE f

race_results_first_race(season, round, reply) ==
    LET f == fetch_ergast(str(season) \o "/" \o str(round) \o "/results", None, reply)
        races == Listed(f.value, "RaceTable", "Races")
        results == getitem(getitem_0(races), "Results")
        count == len(results)
    IN  IF f.kind = "return"
        THEN IF count.kind # "value" THEN Crash(count.kind, f.sent)
             ELSE Return([season |-> season, round |-> round, count |-> count.value,
                          items |-> Py(results.value)], f.sent, <<>>)
        ELSE IF f.status_code = 503
        THEN Return([season |-> season, round |-> round, count |-> 0, items |-> <<>>,
                     offline |-> TRUE], f.sent, <<>>)
        ELSE f

\* results = races[0]["Results"] if races else []: races that are false
\* (an empty list, null, 0, "") give no results; races[0]["Results"] raises
\* KeyError when the first race has no "Results"
race_results(season, round, reply) ==
    LET f == fetch_ergast(str(season) \o "/" \o str(round) \o "/results", None, reply)
        races == Listed(f.value, "RaceTable", "Races")
        results == IF races.kind # "value" THEN races
                   ELSE IF bool(races.value) THEN getitem(getitem_0(races), "Results")
                   ELSE Value(JList(<<>>))
        count == len(results)
    IN  IF f.kind = "return"
        THEN IF count.kind # "value" THEN Crash(count.kind, f.sent)
             ELSE Return([season |-> season, round |-> round, count |-> count.value,
                          items |-> Py(results.value)], f.sent, <<>>)
        ELSE IF f.status_code = 503
        THEN Return([season |-> season, round |-> round, count |-> 0, items |-> <<>>,
                     offline |-> TRUE], f.sent, <<>>)
        ELSE f
----------------------------------------------------------------------------
(* The models of the bodies of the POSTs *)

\* a field of a model: name: str when required, name: str | None = None
\* otherwise
Field(name, required) == [name |-> name, required |-> required]

\* BaseModel(**data): the object, its fields in Python values, or the
\* ValidationError with one error for each field that is missing or is not
\* a string
BaseModel(fields, data) ==
    LET bad(f) == IF f.name \notin DOMAIN data THEN f.required
                  ELSE /\ data[f.name].type # "str"
                       /\ (f.required \/ data[f.name].type # "null")
        wrong == SelectSeq(fields, LAMBDA f : bad(f))
        errors == [i \in 1..Len(wrong) |->
                      IF wrong[i].name \notin DOMAIN data
                      THEN [type |-> "missing", loc |-> <<wrong[i].name>>,
                            input |-> Py(JDict(data))]
                      ELSE [type |-> "string_type", loc |-> <<wrong[i].name>>,
                            input |-> Py(data[wrong[i].name])]]
    IN  IF Len(errors) > 0
        THEN [kind |-> "ValidationError", errors |-> errors]
        ELSE [kind |-> "value",
              value |-> [n \in {fields[i].name : i \in 1..Len(fields)} |->
                            IF n \in DOMAIN data THEN Py(data[n]) ELSE None]]

FavoriteDriverIn(data) ==
    BaseModel(<<Field("driver_id", TRUE), Field("code", FALSE),
                Field("given_name", FALSE), Field("family_name", FALSE),
                Field("nationality", FALSE)>>, data)

FavoriteConstructorIn(data) ==
    BaseModel(<<Field("constructor_id", TRUE), Field("name", FALSE),
                Field("nationality", FALSE)>>, data)

----------------------------------------------------------------------------
(* The favorites store.  Identifiers carry their Python type, ObjectId or  *)
(* str, since both travel in the same fields.                              *)

HexChars == <<"0", "1", "2", "3", "4", "5", "6", "7", "8", "9",
              "a", "b", "c", "d", "e", "f">>

RECURSIVE Hex(_, _)
Hex(n, width) == IF width = 0 THEN ""
                 ELSE Hex(n \div 16, width - 1) \o HexChars[(n % 16) + 1]

ObjectId(n) == [type |-> "ObjectId", hex |-> Hex(n, 24)]

\* str(oid) of an ObjectId
str_ObjectId(oid) == [type |-> "str", value |-> oid.hex]

\* database.create_document: stores the payload's fields under a new
\* identifier and returns the identifier as a string
create_document(collection_name, data) ==
    LET oid == ObjectId(next_oid)
    IN  [inserted_id |-> str_ObjectId(oid),
         write |-> [collection |-> collection_name, doc |-> ("_id" :> oid) @@ data]]

\* database.get_documents: every document of the collection, in storage order
get_documents(collection_name) ==
    IF collection_name = "favoritedriver" THEN favoritedriver
    ELSE favoriteconstructor

add_favorite_driver(payload) ==
    LET c == create_document("favoritedriver", payload)
    IN  Return([id |-> c.inserted_id], <<>>, <<c.write>>)

get_favorite_drivers ==
    LET docs == get_documents("favoritedriver")
        shown == [i \in 1..Len(docs) |->
                     IF "_id" \in DOMAIN docs[i]
                     THEN [docs[i] EXCEPT !["_id"] = str_ObjectId(@)]
                     ELSE docs[i]]
    IN  Return([count |-> Len(shown), items |-> shown], <<>>, <<>>)

add_favorite_constructor(payload) ==
    LET c == create_document("favoriteconstructor", payload)
    IN  Return([id |-> c.inserted_id], <<>>, <<c.write>>)

get_favorite_constructors_raw ==
    LET docs == get_documents("favoriteconstructor")
    IN  Return([count |-> Len(docs), items |-> docs], <<>>, <<>>)

get_favorite_constructors ==
    LET docs == get_documents("favoriteconstructor")
        shown == [i \in 1..Len(docs) |->
                     IF "_id" \in DOMAIN docs[i]
                     THEN [docs[i] EXCEPT !["_id"] = str_ObjectId(@)]
                     ELSE docs[i]]
    IN  Return([count |-> Len(shown), items |-> shown], <<>>, <<>>)

----------------------------------------------------------------------------
(* Root and diagnostics *)

read_root == Return([message |-> "F1 backend running"], <<>>, <<>>)

NoDatabase == [type |-> "NoneType"]
Database(name, others) == [type |-> "Database", name |-> name, others |-> others]

\* os.getenv(key)
getenv(key) == Get(environ, key, None)

\* db.list_collection_names(): the collections that hold documents
list_collection_names ==
    (IF Len(favoritedriver) > 0 THEN <<"favoritedriver">> ELSE <<>>)
    \o (IF Len(favoriteconstructor) > 0 THEN <<"favoriteconstructor">> ELSE <<>>)
    \o [i \in 1..db.others |-> "collection" \o str(i)]

\* fault is None, or the message of the exception list_collection_names raises
test_database(fault) ==
    LET response == [backend |-> "U+2705 Running",
                     database |-> "U+274C Not Available",
                     database_url |-> None,
                     database_name |-> None,
                     connection_status |-> "Not Connected",
                     collections |-> <<>>]
        connected == [response EXCEPT
                         !.database = "U+2705 Available",
                         !.database_url = "U+2705 Configured",
                         !.database_name = IF "name" \in DOMAIN db THEN db.name
                                           ELSE "U+2705 Connected",
                         !.connection_status = "Connected"]
        inspected ==
            IF db.type # "NoneType"
            THEN IF fault = None
                 THEN [connected EXCEPT
                          !.collections = PySlice(list_collection_names, 0, 10),
                          !.database = "U+2705 Connected & Working"]
                 ELSE [connected EXCEPT
                          !.database = "U+26A0 U+FE0F  Connected but Error: "
                                       \o PySlice(fault, 0, 50)]
            ELSE [response EXCEPT
                     !.database = "U+26A0 U+FE0F  Available but not initialized"]
    IN  Return([inspected EXCEPT
                   !.database_url = IF Truthy(getenv("DATABASE_URL"))
                                    THEN "U+2705 Set" ELSE "U+274C Not Set",
                   !.database_name = IF Truthy(getenv("DATABASE_NAME"))
                                     THEN "U+2705 Set" ELSE "U+274C Not Set"],
               <<>>, <<>>)


----------------------------------------------------------------------------
(* The application object.  FastAPI(...) registers the schema and the      *)
(* documentation pages before any decorator runs; then come the routes in  *)
(* the order of their decorators.  The first route whose path and method   *)
(* match handles the request; a path parameter matches any segment that is *)
(* not empty, and is validated afterwards.                                 *)

title == "F1 API"
description == "Simple Formula 1 data API using Ergast + MongoDB for favorites"

routes == <<
    [methods |-> {"GET", "HEAD"}, path |-> <<"openapi.json">>, endpoint |-> "openapi"],
    [methods |-> {"GET", "HEAD"}, path |-> <<"docs">>, endpoint |-> "swagger_ui_html"],
    [methods |-> {"GET", "HEAD"}, path |-> <<"docs", "oauth2-redirect">>,
     endpoint |-> "swagger_ui_redirect"],
    [methods |-> {"GET", "HEAD"}, path |-> <<"redoc">>, endpoint |-> "redoc_html"],
    [methods |-> {"GET"},  path |-> <<>>, endpoint |-> "read_root"],
    [methods |-> {"GET"},  path |-> <<"test">>, endpoint |-> "test_database"],
    [methods |-> {"GET"},  path |-> <<"api", "seasons">>, endpoint |-> "list_seasons"],
    [methods |-> {"GET"},  path |-> <<"api", "{season}", "drivers">>,
     endpoint |-> "list_drivers"],
    [methods |-> {"GET"},  path |-> <<"api", "{season}", "constructors">>,
     endpoint |-> "list_constructors"],
    [methods |-> {"GET"},  path |-> <<"api", "{season}", "races">>,
     endpoint |-> "list_races"],
    [methods |-> {"GET"},  path |-> <<"api", "{season}", "{round}", "results">>,
     endpoint |-> "race_results"],
    [methods |-> {"POST"}, path |-> <<"api", "favorites", "drivers">>,
     endpoint |-> "add_favorite_driver"],
    [methods |-> {"GET"},  path |-> <<"api", "favorites", "drivers">>,
     endpoint |-> "get_favorite_drivers"],
    [methods |-> {"POST"}, path |-> <<"api", "favorites", "constructors">>,
     endpoint |-> "add_favorite_constructor"],
    [methods |-> {"GET"},  path |-> <<"api", "favorites", "constructors">>,
     endpoint |-> "get_favorite_constructors"] >>

\* the endpoints FastAPI itself defines: coroutines, run on the event loop
Documentation == {"openapi", "swagger_ui_html", "swagger_ui_redirect", "redoc_html"}

RECURSIVE PathText(_)
PathText(path) == IF Len(path) = 0 THEN ""
                  ELSE PathText(SubSeq(path, 1, Len(path) - 1)) \o "/" \o path[Len(path)]

\* the schema: the application's title and description, and the paths of
\* the routes the decorators registered
openapi ==
    LET mine == {i \in 1..Len(routes) : routes[i].endpoint \notin Documentation}
    IN  Return([info |-> [title |-> title, description |-> description],
                paths |-> {IF routes[i].path = <<>> THEN "/" ELSE PathText(routes[i].path) :
                              i \in mine}],
               <<>>, <<>>)

\* the documentation pages: HTML under the application's title
swagger_ui_html == Return([html |-> title \o " - Swagger UI"], <<>>, <<>>)
swagger_ui_redirect == Return([html |-> "Swagger UI: OAuth2 Redirect"], <<>>, <<>>)
redoc_html == Return([html |-> title \o " - ReDoc"], <<>>, <<>>)

\* the segments of the routes, as texts
RECURSIVE Texts(_)
Texts(strings) ==
    IF strings = {} THEN EmptyDict
    ELSE LET s == CHOOSE s \in strings : TRUE
         IN  (s :> Text(s)) @@ Texts(strings \ {s})

Segment ==
    Texts(UNION {{routes[i].path[j] : j \in 1..Len(routes[i].path)} :
                    i \in 1..Len(routes)})

\* a segment in braces is a parameter
IsParam(segment) == Len(segment) > 0 /\ Segment[segment][1] = ord("{")

\* a path of segments written as strings
Segments(path) ==
    [i \in 1..Len(path) |->
        IF path[i] \in DOMAIN Segment THEN Segment[path[i]] ELSE Text(path[i])]

\* the path of a request is the sequence of its segments, each a text:
\* /api/seasons is Segments(<<"api", "seasons">>), / is <<>>, and a path that
\* ends in a slash ends in an empty segment
SegmentsMatch(pattern, path) ==
    /\ Len(pattern) = Len(path)
    /\ \A i \in 1..Len(pattern) :
           IF IsParam(pattern[i]) THEN Len(path[i]) > 0
           ELSE Segment[pattern[i]] = path[i]

\* the path without the line feed it ends in, if it ends in one
Chomp(path) ==
    LET n == Len(path)
        last == path[n]
    IN  IF n = 0 \/ Len(last) = 0 \/ last[Len(last)] # 10 THEN path
        ELSE IF n = 1 /\ Len(last) = 1 THEN <<>>
        ELSE [path EXCEPT ![n] = SubSeq(last, 1, Len(last) - 1)]

\* The route's path is compiled to a regular expression that ends in "$"
\* and is applied with re.match: "$" matches at the end of the path and
\* before a line feed the path ends in.
PathMatches(pattern, path) ==
    SegmentsMatch(pattern, path) \/ SegmentsMatch(pattern, Chomp(path))

Match(route, request) ==
    IF ~PathMatches(route.path, request.path) THEN "NONE"
    ELSE IF request.method \in route.methods THEN "FULL"
    ELSE "PARTIAL"

\* a response built without an endpoint
Response(status_code, content) ==
    [kind |-> "Response", status_code |-> status_code, content |-> content,
     sent |-> <<>>, writes |-> <<>>]

\* path.rstrip("/")
RECURSIVE rstrip(_)
rstrip(path) == IF Len(path) > 0 /\ Len(path[Len(path)]) = 0
                THEN rstrip(SubSeq(path, 1, Len(path) - 1))
                ELSE path

\* the application's router: the first route that matches in full; else a
\* route that matches but for the method; else, for a path that ends in a
\* slash, a redirect to the path without it when a route matches that one;
\* else Not Found
app(request) ==
    LET full == {i \in 1..Len(routes) : Match(routes[i], request) = "FULL"}
        partial == {i \in 1..Len(routes) : Match(routes[i], request) = "PARTIAL"}
        first == CHOOSE i \in full : \A j \in full : i <= j
        path == request.path
        redirect == [request EXCEPT !.path = rstrip(path)]
    IN  IF full # {}
        THEN [matched |-> TRUE, route |-> routes[first]]
        ELSE IF partial # {}
        THEN [matched |-> FALSE, result |-> Raise(405, "Method Not Allowed", <<>>)]
        ELSE IF /\ Len(path) > 0 /\ Len(path[Len(path)]) = 0
                /\ Len(redirect.path) > 0
                /\ \E i \in 1..Len(routes) : Match(routes[i], redirect) # "NONE"
        THEN [matched |-> FALSE, result |-> Response(307, "")]
        ELSE [matched |-> FALSE, result |-> Raise(404, "Not Found", <<>>)]

\* CORSMiddleware(allow_origins=["*"], allow_methods=["*"],
\* allow_headers=["*"]): [handled, result] for a request.  A preflight, an
\* OPTIONS request with an Origin and a requested method, is answered by
\* the middleware; every other request goes on to the router.
ALL_METHODS == {"DELETE", "GET", "HEAD", "OPTIONS", "PATCH", "POST", "PUT"}

CORSMiddleware(request) ==
    IF /\ request.method = "OPTIONS"
       /\ "origin" \in DOMAIN request.headers
       /\ "access-control-request-method" \in DOMAIN request.headers
    THEN [handled |-> TRUE,
          result |-> IF request.headers["access-control-request-method"] \in ALL_METHODS
                     THEN Response(200, "OK")
                     ELSE Response(400, "Disallowed CORS method")]
    ELSE [handled |-> FALSE]

\* the value of path parameter name
PathParam(route, request, name) ==
    request.path[CHOOSE i \in 1..Len(route.path) : route.path[i] = "{" \o name \o "}"]

ValidationError(errors) ==
    [kind |-> "RequestValidationError", errors |-> errors, sent |-> <<>>,
     writes |-> <<>>]

\* the int parameters of the path that do not parse
PathErrors(route, request, names) ==
    LET bad == SelectSeq(names, LAMBDA n : ~IsIntText(PathParam(route, request, n)))
    IN  [i \in 1..Len(bad) |->
            [type |-> "int_parsing", loc |-> <<"path", bad[i]>>,
             input |-> PathParam(route, request, bad[i])]]

\* the int parameters of the query string that are given and do not parse
QueryErrors(request, names) ==
    LET bad == SelectSeq(names, LAMBDA n : /\ n \in DOMAIN request.query
                                           /\ ~IsIntText(request.query[n]))
    IN  [i \in 1..Len(bad) |->
            [type |-> "int_parsing", loc |-> <<"query", bad[i]>>,
             input |-> request.query[bad[i]]]]

\* what the model of the body rejects: a body that is absent, that is no
\* object, or whose fields the model rejects
BodyErrors(request, model) ==
    LET body == request.body
        m == IF model = "FavoriteDriverIn" THEN FavoriteDriverIn(body.dict)
             ELSE FavoriteConstructorIn(body.dict)
    IN  IF body.type \in {"absent", "null"}
        THEN <<[type |-> "missing", loc |-> <<"body">>, input |-> None]>>
        ELSE IF body.type # "dict"
        THEN <<[type |-> "model_attributes_type", loc |-> <<"body">>,
                input |-> Py(body)]>>
        ELSE IF m.kind = "value" THEN <<>>
        ELSE [i \in 1..Len(m.errors) |->
                 [m.errors[i] EXCEPT !.loc = <<"body">> \o @]]

\* what the declared parameters of the route's endpoint reject in the request
Errors(route, request) ==
    LET e == route.endpoint
    IN  CASE e = "list_seasons" -> QueryErrors(request, <<"limit", "offset">>)
          [] e \in {"list_drivers", "list_constructors", "list_races"} ->
                 PathErrors(route, request, <<"season">>)
          [] e = "race_results" -> PathErrors(route, request, <<"season", "round">>)
          [] e = "add_favorite_driver" -> BodyErrors(request, "FavoriteDriverIn")
          [] e = "add_favorite_constructor" ->
                 BodyErrors(request, "FavoriteConstructorIn")
          [] OTHER -> <<>>

\* the endpoint of the route, called with the validated parameters
Call(route, request, reply, fault) ==
    LET e == route.endpoint
        season == IntValue(PathParam(route, request, "season"))
        round == IntValue(PathParam(route, request, "round"))
        limit == IF "limit" \in DOMAIN request.query
                 THEN IntValue(request.query["limit"]) ELSE 80
        offset == IF "offset" \in DOMAIN request.query
                  THEN IntValue(request.query["offset"]) ELSE 0
    IN  CASE e = "openapi" -> openapi
          [] e = "swagger_ui_html" -> swagger_ui_html
          [] e = "swagger_ui_redirect" -> swagger_ui_redirect
          [] e = "redoc_html" -> redoc_html
          [] e = "read_root" -> read_root
          [] e = "test_database" -> test_database(fault)
          [] e = "list_seasons" -> list_seasons(limit, offset, reply)
          [] e = "list_drivers" -> list_drivers(season, reply)
          [] e = "list_constructors" -> list_constructors(season, reply)
          [] e = "list_races" -> list_races(season, reply)
          [] e = "race_results" -> race_results(season, round, reply)
          [] e = "add_favorite_driver" ->
                 add_favorite_driver(FavoriteDriverIn(request.body.dict).value)
          [] e = "get_favorite_drivers" -> get_favorite_drivers
          [] e = "add_favorite_constructor" ->
                 add_favorite_constructor(
                     FavoriteConstructorIn(request.body.dict).value)
          [] e = "get_favorite_constructors" -> get_favorite_constructors

\* the HTTP response of a handler's run
Respond(result) ==
    CASE result.kind = "return" ->
             [status_code |-> 200, body |-> result.value]
      [] result.kind = "HTTPException" ->
             [status_code |-> result.status_code, body |-> [detail |-> result.detail]]
      [] result.kind = "RequestValidationError" ->
             [status_code |-> 422, body |-> [detail |-> result.errors]]
      [] result.kind = "Response" ->
             [status_code |-> result.status_code, body |-> result.content]
      [] OTHER ->
             [status_code |-> 500, body |-> "Internal Server Error"]

WritesTo(writes, collection_name) ==
    LET mine == SelectSeq(writes, LAMBDA w : w.collection = collection_name)
    IN  [i \in 1..Len(mine) |-> mine[i].doc]

----------------------------------------------------------------------------
(* A request in flight.  conn[c] is the request of client c and how far it *)
(* got:                                                                    *)
(*   idle      no request yet                                              *)
(*   running   the endpoint is handed to a worker thread                   *)
(*   waiting   the thread has sent the upstream call and waits             *)
(*   returned  the endpoint has returned or raised; what it stored is in   *)
(*             the collections; the response is not written yet            *)
(*   done      the response is written                                     *)

Idle == [stage |-> "idle"]

Request(method, path, query, body, headers) ==
    [method |-> method, path |-> path, query |-> query, body |-> body,
     headers |-> headers]

Running(request, route) ==
    [stage |-> "running", request |-> request, route |-> route, sent |-> <<>>]

Waiting(request, route, sent) ==
    [stage |-> "waiting", request |-> request, route |-> route, sent |-> sent]

Exchanges(result, reply) ==
    [i \in 1..Len(result.sent) |-> [request |-> result.sent[i], reply |-> reply]]

Returned(request, route, result, reply) ==
    [stage |-> "returned", request |-> request, route |-> route,
     result |-> result, upstream |-> Exchanges(result, reply)]

Done(request, route, result, upstream) ==
    [stage |-> "done", request |-> request, route |-> route,
     response |-> Respond(result), upstream |-> upstream]

DataRoutes == {"list_seasons", "list_drivers", "list_constructors", "list_races",
               "race_results"}

\* what the endpoint sends before it waits: its call goes out whatever the
\* answer will be
FirstSent(route, request) ==
    PySlice(Call(route, request, [kind |-> "RequestException"], None).sent, 0, 1)

\* The request of client c arrives: the event loop answers it at once when
\* it is a preflight, when no route matches, when a parameter is rejected
\* and when the endpoint is a coroutine; otherwise it hands the endpoint to
\* a worker thread.
Receive(c, method, path, query, body, headers) ==
    LET request == Request(method, path, query, body, headers)
        cors == CORSMiddleware(request)
        a == app(request)
    IN  /\ conn[c].stage \in {"idle", "done"}
        /\ conn' = [conn EXCEPT ![c] =
               IF cors.handled THEN Done(request, "none", cors.result, <<>>)
               ELSE IF ~a.matched THEN Done(request, "none", a.result, <<>>)
               ELSE IF Len(Errors(a.route, request)) > 0
               THEN Done(request, a.route.endpoint,
                         ValidationError(Errors(a.route, request)), <<>>)
               ELSE IF a.route.endpoint \in Documentation
               THEN Done(request, a.route.endpoint,
                         Call(a.route, request, None, None), <<>>)
               ELSE Running(request, a.route.endpoint)]
        /\ UNCHANGED <<utc_year, db, environ, favoritedriver, favoriteconstructor,
                       next_oid, posted>>

\* the worker thread of client c's request calls requests.get
Send(c) ==
    LET request == conn[c].request
    IN  /\ conn[c].stage = "running"
        /\ conn[c].route \in DataRoutes
        /\ conn' = [conn EXCEPT
                        ![c] = Waiting(request, conn[c].route,
                                       FirstSent(app(request).route, request))]
        /\ UNCHANGED <<utc_year, db, environ, favoritedriver, favoriteconstructor,
                       next_oid, posted>>

\* The endpoint of client c's request returns or raises in its thread,
\* reply being what its upstream call came to and fault what the storage's
\* inspection raised; what it stored is in the collections.
Finish(c, reply, fault) ==
    LET request == conn[c].request
        result == Call(app(request).route, request, reply, fault)
    IN  /\ \/ conn[c].stage = "waiting"
           \/ conn[c].stage = "running" /\ conn[c].route \notin DataRoutes
        /\ conn' = [conn EXCEPT ![c] = Returned(request, conn[c].route, result, reply)]
        /\ favoritedriver' = favoritedriver \o WritesTo(result.writes, "favoritedriver")
        /\ favoriteconstructor' =
               favoriteconstructor \o WritesTo(result.writes, "favoriteconstructor")
        /\ next_oid' = next_oid + Len(result.writes)
        /\ posted' = IF Len(result.writes) > 0
                     THEN Append(posted, [collection |-> result.writes[1].collection,
                                          body |-> Py(request.body),
                                          response |-> Respond(result)])
                     ELSE posted
        /\ UNCHANGED <<utc_year, db, environ>>

\* the event loop writes the response of client c's request
Answer(c) ==
    /\ conn[c].stage = "returned"
    /\ conn' = [conn EXCEPT
                    ![c] = Done(conn[c].request, conn[c].route, conn[c].result,
                                conn[c].upstream)]
    /\ UNCHANGED <<utc_year, db, environ, favoritedriver, favoriteconstructor,
                   next_oid, posted>>

----------------------------------------------------------------------------
(* What the clients send and what ergast.com answers *)

Years == 2026..(2026 + MaxYearsAhead)

\* values past the two ends of the list of seasons
IntInputs ==
    LET total == utc_year - start_year + 1
    IN  {0 - (total + 1), total}

\* the pages of the seasons, in texts that are numbers to pydantic (behind
\* a vertical tab, with underscores after a leading zero, with a fraction
\* of zeros) and in one that is none
PageQueries ==
    {EmptyDict, [limit |-> Text("abc")],
     [limit |-> <<11>> \o Text("2"), offset |-> Text("0__1")],
     [limit |-> Text("80"), offset |-> Text("1")],
     [limit |-> Text("0"), offset |-> Text("\t1.0\n")],
     [limit |-> Text("-1"), offset |-> Text("0")],
     [limit |-> Text("77"), offset |-> Text("-1")]}
    \cup {[limit |-> Text(str(l)), offset |-> Text(str(o))] :
             l \in IntInputs, o \in IntInputs}

FewQueries == {EmptyDict, [limit |-> Text("2"), offset |-> Text("x")]}

\* the texts of a season in the path: a number as pydantic reads it (1,
\* between a vertical tab and an em space), texts that are no numbers, the
\* empty segment
SeasonTexts ==
    {<<11>> \o Text("1.0") \o <<8195>>, Text("12a"), Text("1."), Text("0_"),
     Text("")}
RoundTexts == {Text("22"), Text("x")}
ErrorStatuses == {404, 500, 503}

Items(kind, n) ==
    JList([i \in 1..n |-> JDict((kind \o "Id") :> JStr(kind \o str(i)))])
ItemLists(kind) == {Items(kind, n) : n \in 0..MaxItems}

\* the races of the results feed: none, or a first race with its "Results",
\* without them, or with what is no list of results, and a second race
RaceLists ==
    {JList(<<>>), JList(<<JDict([round |-> JStr("1")])>>),
     JList(<<JDict([round |-> JStr("1"), Results |-> JNull])>>),
     JList(<<JDict([round |-> JStr("1"), Results |-> Items("result", MaxItems)]),
             JDict([round |-> JStr("2")])>>)}
    \cup {JList(<<JDict([round |-> JStr("1"), Results |-> r])>>) :
             r \in ItemLists("result")}

\* the envelope MRData / table / list, whole or cut short at any level
Envelopes(table, list, lists) ==
    {JDict(EmptyDict), JDict([MRData |-> JDict(EmptyDict)]),
     JDict([MRData |-> JDict(table :> JDict(EmptyDict))])}
    \cup {JDict([MRData |-> JDict(table :> JDict(list :> l))]) : l \in lists}

\* bodies whose levels are there and are not what the code reads them as:
\* no object under MRData or under the table; null or a string in the place
\* of the list; no JSON at all
Malformed(table, list) ==
    {JDict([MRData |-> JNull]), JDict([MRData |-> JDict(table :> JList(<<>>))]),
     Undecodable}
    \cup {JDict([MRData |-> JDict(table :> JDict(list :> l))]) :
             l \in {JNull, JStr("ab")}}

Unreachable == [kind |-> "RequestException"]

Replies(table, list, lists) ==
    {Unreachable}
    \cup {[kind |-> "response", status_code |-> s] : s \in ErrorStatuses}
    \cup {[kind |-> "response", status_code |-> 200, json |-> j] :
             j \in Envelopes(table, list, lists) \cup Malformed(table, list)}

\* one reply of each outcome: no answer, a status that is not 200, a feed
Outcomes(table, list, l) ==
    {Unreachable, [kind |-> "response", status_code |-> 404],
     [kind |-> "response", status_code |-> 200,
      json |-> JDict([MRData |-> JDict(table :> JDict(list :> l))])]}

\* what ergast.com may answer to the call of an endpoint; an endpoint that
\* makes no call reads no reply
UpstreamReplies(endpoint, brief) ==
    CASE endpoint = "list_seasons" ->
             IF brief THEN Outcomes("SeasonTable", "Seasons", Items("season", 1))
             ELSE Replies("SeasonTable", "Seasons", ItemLists("season"))
      [] endpoint = "list_drivers" ->
             IF brief THEN Outcomes("DriverTable", "Drivers", Items("driver", 1))
             ELSE Replies("DriverTable", "Drivers", ItemLists("driver"))
      [] endpoint = "list_constructors" ->
             IF brief
             THEN Outcomes("ConstructorTable", "Constructors", Items("constructor", 1))
             ELSE Replies("ConstructorTable", "Constructors", ItemLists("constructor"))
      [] endpoint = "list_races" ->
             IF brief THEN Outcomes("RaceTable", "Races", Items("race", 1))
             ELSE Replies("RaceTable", "Races", ItemLists("race"))
      [] endpoint = "race_results" ->
             IF brief
             THEN Outcomes("RaceTable", "Races",
                           JList(<<JDict([round |-> JStr("1"),
                                          Results |-> Items("result", 1)])>>))
             ELSE Replies("RaceTable", "Races", RaceLists)
      [] OTHER -> {Unreachable}

\* bodies the model accepts, and bodies it rejects: a required field
\* missing, a field that is no string, no body at all
FavoriteDriverInputs ==
    {JDict([driver_id |-> JStr("hamilton")]),
     JDict([driver_id |-> JStr("hamilton"), code |-> JStr("HAM"),
            given_name |-> JStr("Lewis"), family_name |-> JStr("Hamilton"),
            nationality |-> JNull]),
     JDict([code |-> JStr("HAM")]),
     JDict([driver_id |-> JInt(5)]),
     JDict([driver_id |-> JStr("hamilton"), code |-> JInt(5)]),
     NoBody}

FavoriteConstructorInputs ==
    {JDict([constructor_id |-> JStr("ferrari"), name |-> JNull]),
     JDict([name |-> JStr("Ferrari")]),
     JDict([constructor_id |-> JNull]),
     JDict([constructor_id |-> JStr("ferrari"), name |-> JList(<<JStr("x")>>)]),
     JList(<<>>)}

DatabaseInputs ==
    {NoDatabase}
    \cup {Database("f1db", n) : n \in {0, MaxCollections - 1, MaxCollections}}

EnvironInputs ==
    {EmptyDict}
    \cup {[DATABASE_URL |-> u] : u \in {"", "mongodb://localhost:27017"}}
    \cup {[DATABASE_NAME |-> n] : n \in {"", "f1db"}}
    \cup {[DATABASE_URL |-> u, DATABASE_NAME |-> n] :
             u \in {"", "mongodb://localhost:27017"}, n \in {"", "f1db"}}

FaultInputs ==
    {None, "not authorized",
     "localhost:27017: [Errno 111] Connection refused, Timeout: 30s, Topology Description"}

\* what the storage's inspection may raise; only GET /test inspects it
Faults(endpoint) == IF endpoint = "test_database" THEN FaultInputs ELSE {None}

----------------------------------------------------------------------------
(* The requests of a client c, and the steps of the server *)

GetRequest(c, path, query) == Receive(c, "GET", path, query, NoBody, EmptyDict)

GetRoot(c) == GetRequest(c, <<>>, EmptyDict)

GetDocumentation(c) ==
    \E path \in {<<"openapi.json">>, <<"docs">>, <<"docs", "oauth2-redirect">>,
                 <<"redoc">>} :
        GetRequest(c, Segments(path), EmptyDict)

GetTest(c) == GetRequest(c, Segments(<<"test">>), EmptyDict)

\* paths that end in a slash or in a line feed, and a path no route knows
GetSlash(c) ==
    \E path \in {<<"test", "">>, <<"api", "seasons", "", "">>,
                 <<"api", "2024", "drivers", "">>, <<"docs", "">>, <<"", "">>,
                 <<"nowhere">>, <<"\n">>, <<"docs\n", "">>, <<"test", "\n">>} :
        GetRequest(c, Segments(path), EmptyDict)

\* the headers of a browser's preflight for a method, which exists or not
PreflightHeaders ==
    {[origin |-> "https://example.org"] @@ ("access-control-request-method" :> m) :
        m \in {"GET", "FETCH"}}

Preflight(c) ==
    \E headers \in PreflightHeaders :
        Receive(c, "OPTIONS", Segments(<<"api", "seasons">>), EmptyDict, NoBody, headers)

GetSeasons(c, queries) ==
    \E query \in queries : GetRequest(c, Segments(<<"api", "seasons">>), query)

GetDrivers(c, seasons) ==
    \E season \in seasons : GetRequest(c, <<Segment["api"], season, Segment["drivers"]>>, EmptyDict)

GetConstructors(c, seasons) ==
    \E season \in seasons : GetRequest(c, <<Segment["api"], season, Segment["constructors"]>>, EmptyDict)

GetRaces(c, seasons) ==
    \E season \in seasons : GetRequest(c, <<Segment["api"], season, Segment["races"]>>, EmptyDict)

GetResults(c, seasons, rounds) ==
    \E season \in seasons, round \in rounds :
        GetRequest(c, <<Segment["api"], season, round, Segment["results"]>>, EmptyDict)

\* the POSTs whose thread has not stored yet
InFlight ==
    Cardinality({c \in Clients :
                    /\ conn[c].stage = "running"
                    /\ conn[c].route \in {"add_favorite_driver",
                                          "add_favorite_constructor"}})

\* the favorites are posted with the storage connected, MaxFavorites of
\* them at most
PostFavoriteDriver(c, bodies) ==
    /\ db.type = "Database"
    /\ Len(favoritedriver) + Len(favoriteconstructor) + InFlight < MaxFavorites
    /\ \E body \in bodies :
           Receive(c, "POST", Segments(<<"api", "favorites", "drivers">>), EmptyDict,
                   body, EmptyDict)

\* the path also matches /api/{season}/drivers, registered before
GetFavoriteDrivers(c) ==
    GetRequest(c, Segments(<<"api", "favorites", "drivers">>), EmptyDict)

PostFavoriteConstructor(c, bodies) ==
    /\ db.type = "Database"
    /\ Len(favoritedriver) + Len(favoriteconstructor) + InFlight < MaxFavorites
    /\ \E body \in bodies :
           Receive(c, "POST", Segments(<<"api", "favorites", "constructors">>),
                   EmptyDict, body, EmptyDict)

\* the path also matches /api/{season}/constructors, registered before
GetFavoriteConstructors(c) ==
    GetRequest(c, Segments(<<"api", "favorites", "constructors">>), EmptyDict)

\* the endpoint of c's request comes to its end, under any reply of
\* ergast.com (one of each outcome when brief) and any fault of the storage
Complete(c, brief) ==
    /\ conn[c].stage \in {"running", "waiting"}
    /\ \E reply \in UpstreamReplies(conn[c].route, brief) :
       \E fault \in Faults(conn[c].route) :
           Finish(c, reply, fault)

----------------------------------------------------------------------------
(* The specifications *)

Started ==
    /\ favoritedriver = <<>>
    /\ favoriteconstructor = <<>>
    /\ next_oid = 1
    /\ posted = <<>>
    /\ conn = [c \in Clients |-> Idle]

Configured ==
    /\ db = Database("f1db", 0)
    /\ environ = [DATABASE_URL |-> "mongodb://localhost:27017", DATABASE_NAME |-> "f1db"]

\* the process started this year with its storage connected and configured
Init == utc_year = 2026 /\ Configured /\ Started

\* the same, in any of the years
InitYears == utc_year \in Years /\ Configured /\ Started

\* the process started under any configuration
InitDiagnostics ==
    /\ utc_year = 2026
    /\ db \in DatabaseInputs
    /\ environ \in EnvironInputs
    /\ Started

\* the data endpoints
Next ==
    \/ \E c \in Clients : GetSeasons(c, FewQueries)
    \/ \E c \in Clients : GetDrivers(c, SeasonTexts)
    \/ \E c \in Clients : GetConstructors(c, {Text("2024")})
    \/ \E c \in Clients : GetRaces(c, {Text("2024")})
    \/ \E c \in Clients : GetResults(c, {Text("2024")}, RoundTexts)
    \/ \E c \in Clients : Send(c)
    \/ \E c \in Clients : Complete(c, FALSE)
    \/ \E c \in Clients : Answer(c)

Spec == Init /\ [][Next]_vars

\* the pages of the seasons
NextSeasons ==
    \/ \E c \in Clients : GetSeasons(c, PageQueries)
    \/ \E c \in Clients : Send(c)
    \/ \E c \in Clients : Complete(c, TRUE)
    \/ \E c \in Clients : Answer(c)

SpecSeasons == InitYears /\ [][NextSeasons]_vars

\* the favorites endpoints
NextFavorites ==
    \/ \E c \in Clients : PostFavoriteDriver(c, FavoriteDriverInputs)
    \/ \E c \in Clients : GetFavoriteDrivers(c)
    \/ \E c \in Clients : PostFavoriteConstructor(c, FavoriteConstructorInputs)
    \/ \E c \in Clients : GetFavoriteConstructors(c)
    \/ \E c \in Clients : Complete(c, TRUE)
    \/ \E c \in Clients : Answer(c)

SpecFavorites == Init /\ [][NextFavorites]_vars

\* root, diagnostics, documentation, and what the router and the
\* middleware answer themselves
NextDiagnostics ==
    \/ \E c \in Clients : GetRoot(c)
    \/ \E c \in Clients : GetTest(c)
    \/ \E c \in Clients : GetDocumentation(c)
    \/ \E c \in Clients : GetSlash(c)
    \/ \E c \in Clients : Preflight(c)
    \/ \E c \in Clients : Complete(c, TRUE)
    \/ \E c \in Clients : Answer(c)

SpecDiagnostics == InitDiagnostics /\ [][NextDiagnostics]_vars

\* every data and favorites endpoint, one request of a kind, one reply of
\* each outcome
NextAll ==
    \/ \E c \in Clients : GetSeasons(c, {EmptyDict})
    \/ \E c \in Clients : GetDrivers(c, {Text("2024")})
    \/ \E c \in Clients : GetConstructors(c, {Text("2024")})
    \/ \E c \in Clients : GetRaces(c, {Text("2024")})
    \/ \E c \in Clients : GetResults(c, {Text("2024")}, {Text("22")})
    \/ \E c \in Clients : PostFavoriteDriver(c, {JDict([driver_id |-> JStr("hamilton")])})
    \/ \E c \in Clients : GetFavoriteDrivers(c)
    \/ \E c \in Clients :
           PostFavoriteConstructor(c, {JDict([constructor_id |-> JStr("ferrari")])})
    \/ \E c \in Clients : GetFavoriteConstructors(c)
    \/ \E c \in Clients : Send(c)
    \/ \E c \in Clients : Complete(c, TRUE)
    \/ \E c \in Clients : Answer(c)

SpecAll == Init /\ [][NextAll]_vars

----------------------------------------------------------------------------
(* Properties.  They speak of every request that is done: x below is the   *)
(* state conn[c] of a client's request.                                    *)

Every(P(_)) == \A c \in Clients : P(conn[c])
Some(P(_)) == \E c \in Clients : P(conn[c])

IsDone(x) == x.stage = "done"
IsRunning(x) == x.stage = "running"
IsWaiting(x) == x.stage = "waiting"
IsReturned(x) == x.stage = "returned"
InProgress(x) == IsRunning(x) \/ IsWaiting(x) \/ IsReturned(x)

FavoriteRoutes == {"add_favorite_driver", "get_favorite_drivers",
                   "add_favorite_constructor", "get_favorite_constructors"}

\* the request reached the handler of a data endpoint, which is over
ServedData(x) == IsDone(x) /\ x.route \in DataRoutes /\ x.response.status_code # 422

ServedBy(x, endpoints) == ServedData(x) /\ x.route \in endpoints

\* the request is to /api/favorites/... and is answered
ToFavorites(x, kind) ==
    IsDone(x) /\ x.request.path = Segments(<<"api", "favorites", kind>>)

UpstreamReply(x) == x.upstream[1].reply
UpstreamUnreachable(x) ==
    Len(x.upstream) > 0 /\ UpstreamReply(x).kind = "RequestException"
UpstreamStatus(x, ok) ==
    /\ Len(x.upstream) > 0
    /\ UpstreamReply(x).kind = "response"
    /\ (UpstreamReply(x).status_code = 200) = ok

\* the limit, offset, season and round a served request asks for
ReqLimit(x) == IF "limit" \in DOMAIN x.request.query
               THEN IntValue(x.request.query["limit"]) ELSE 80
ReqOffset(x) == IF "offset" \in DOMAIN x.request.query
                THEN IntValue(x.request.query["offset"]) ELSE 0
ReqSeason(x) == IntValue(x.request.path[2])
ReqRound(x) == IntValue(x.request.path[3])
TotalYears == utc_year - 1950 + 1

\* another request is in progress while this one is answered
Overlapped == Some(InProgress)

Contains(text, part) ==
    \E i \in 1..(Len(text) - Len(part) + 1) : SubSeq(text, i, i + Len(part) - 1) = part

PageOf(x, limit, offset) ==
    LET items == x.response.body.items
    IN  /\ x.response.status_code = 200
        /\ Len(items) = Max(0, Min(limit, TotalYears - offset))
        /\ x.response.body.count = Len(items)
        /\ (offset < TotalYears /\ Len(items) > 0) => items[1].season = str(1950 + offset)

PageForEveryInteger(x) ==
    (ServedBy(x, {"list_seasons"}) /\ UpstreamUnreachable(x)) =>
        PageOf(x, ReqLimit(x), ReqOffset(x))

\* C1 as stated: for every integer limit and offset the offline seasons hold
\* max(0, min(limit, totalYears - offset)) items, the first of season
\* str(1950 + offset) when offset < totalYears.
C1_PageForEveryInteger == Every(PageForEveryInteger)

\* a bound of the slice as Python reads it: a negative one counts from the end
FromEnd(i) == IF i < 0 THEN Max(i + TotalYears, 0) ELSE Min(i, TotalYears)

PageAsSliced(x) ==
    (ServedBy(x, {"list_seasons"}) /\ UpstreamUnreachable(x)) =>
        LET lo == FromEnd(ReqOffset(x))
            hi == FromEnd(ReqOffset(x) + ReqLimit(x))
            items == x.response.body.items
        IN  /\ (ReqLimit(x) >= 0 /\ ReqOffset(x) >= 0) =>
                   PageOf(x, ReqLimit(x), ReqOffset(x))
            /\ x.response.status_code = 200
            /\ x.response.body.count = Len(items)
            /\ Len(items) = Max(0, hi - lo)
            /\ Len(items) > 0 => items[1].season = str(1950 + lo)

\* C1, amended: for every limit >= 0 and offset >= 0 the offline seasons hold
\* max(0, min(limit, totalYears - offset)) items, the first of season
\* str(1950 + offset) when offset < totalYears, and an offset past the end
\* gives an empty list.  A negative offset or end of page counts from the end
\* of the list: with lo and hi the bounds so read, the page holds
\* max(0, hi - lo) items, the first of season str(1950 + lo).
C1_PageAsSliced == Every(PageAsSliced)

DefaultPageFromOne(x) ==
    /\ ServedBy(x, {"list_seasons"}) /\ UpstreamUnreachable(x)
    /\ x.request.query = [limit |-> Text("80"), offset |-> Text("1")]
    /\ x.response.body.count = TotalYears - 1
    /\ x.response.body.items[1].season = "1951"
    /\ x.response.body.items[TotalYears - 1].season = str(utc_year)

C1_Witness == Some(DefaultPageFromOne)

UpstreamStatusIs502(x) ==
    (ServedData(x) /\ UpstreamStatus(x, FALSE)) =>
        /\ x.response.status_code = 502
        /\ DOMAIN x.response.body = {"detail"}
        /\ Contains(x.response.body.detail, str(UpstreamReply(x).status_code))

\* C2: on every data endpoint an upstream status s other than 200 reaches the
\* client as a 502 whose detail holds s, and nothing else: no offline key, no
\* items.
C2_UpstreamStatusIs502 == Every(UpstreamStatusIs502)

Seasons503(x) ==
    /\ ServedBy(x, {"list_seasons"}) /\ UpstreamStatus(x, FALSE)
    /\ UpstreamReply(x).status_code = 503
    /\ x.response = [status_code |-> 502, body |-> [detail |-> "Upstream error 503"]]

C2_Witness == Some(Seasons503)

SeasonsFallBackToOffline(x) ==
    (ServedBy(x, {"list_seasons"}) /\ UpstreamUnreachable(x)) =>
        /\ x.response.status_code = 200
        /\ x.response.body = offline_seasons(ReqLimit(x), ReqOffset(x))
        /\ x.response.body.offline = TRUE

\* C3: when ergast.com is unreachable, /api/seasons answers 200 with
\* offline_seasons(limit, offset) for the limit and offset of the request,
\* offline: true included.
C3_SeasonsFallBackToOffline == Every(SeasonsFallBackToOffline)

OfflinePage(x) ==
    /\ ServedBy(x, {"list_seasons"}) /\ UpstreamUnreachable(x)
    /\ x.request.query = [limit |-> <<11>> \o Text("2"), offset |-> Text("0__1")]
    /\ x.response.status_code = 200
    /\ x.response.body.offline = TRUE
    /\ x.response.body.count = 2
    /\ x.response.body.items[2].season = "1952"

C3_Witness == Some(OfflinePage) /\ Overlapped

EmptyOfflineFallback(x) ==
    /\ (ServedBy(x, {"list_drivers", "list_constructors", "list_races"})
        /\ UpstreamUnreachable(x)) =>
           x.response =
               [status_code |-> 200,
                body |-> [season |-> ReqSeason(x), count |-> 0, items |-> <<>>,
                          offline |-> TRUE]]
    /\ (ServedBy(x, {"race_results"}) /\ UpstreamUnreachable(x)) =>
           x.response =
               [status_code |-> 200,
                body |-> [season |-> ReqSeason(x), round |-> ReqRound(x), count |-> 0,
                          items |-> <<>>, offline |-> TRUE]]

\* C4: when ergast.com is unreachable, drivers, constructors and races answer
\* 200 with exactly {season, count: 0, items: [], offline: true} and race
\* results with exactly {season, round, count: 0, items: [], offline: true},
\* season and round those of the path.
C4_EmptyOfflineFallback == Every(EmptyOfflineFallback)

DriversOffline(x) ==
    /\ ServedBy(x, {"list_drivers"}) /\ UpstreamUnreachable(x)
    /\ x.request.path = <<Text("api"), <<11>> \o Text("1.0") \o <<8195>>, Text("drivers")>>
    /\ x.response.status_code = 200
    /\ x.response.body = [season |-> 1, count |-> 0, items |-> <<>>,
                          offline |-> TRUE]

C4_Witness == Some(DriversOffline)

PostedTo(collection_name) ==
    SelectSeq(posted, LAMBDA p : p.collection = collection_name)

Lists(x, collection_name, key) ==
    LET mine == PostedTo(collection_name)
        body == x.response.body
    IN  /\ x.response.status_code = 200
        /\ body.count = Len(mine)
        /\ Len(body.items) = Len(mine)
        /\ \A i \in 1..Len(mine) :
               /\ body.items[i][key] = mine[i].body[key]
               /\ body.items[i]["_id"] = mine[i].response.body.id

ListingHoldsEveryInsert(x) ==
    /\ (ToFavorites(x, "drivers") /\ x.request.method = "GET") =>
           Lists(x, "favoritedriver", "driver_id")
    /\ (ToFavorites(x, "constructors") /\ x.request.method = "GET") =>
           Lists(x, "favoriteconstructor", "constructor_id")

\* C5: after any sequence of inserts every insert has succeeded and the
\* listing of the collection returns one record per insert, count included,
\* two inserts of the same driver_id (constructor_id) both among them.
C5_ListingHoldsEveryInsert ==
    /\ \A i \in 1..Len(posted) : posted[i].response.status_code = 200
    /\ Every(ListingHoldsEveryInsert)

Envelope(route) ==
    CASE route = "list_seasons" -> <<"SeasonTable", "Seasons">>
      [] route = "list_drivers" -> <<"DriverTable", "Drivers">>
      [] route = "list_constructors" -> <<"ConstructorTable", "Constructors">>
      [] route \in {"list_races", "race_results"} -> <<"RaceTable", "Races">>

\* the value under the keys in a body, a level after the other; "missing"
\* when a level is an object without the key, "blocked" when it is no
\* object
RECURSIVE At(_, _)
At(json, keys) ==
    IF Len(keys) = 0 THEN json
    ELSE IF json.type # "dict" THEN [type |-> "blocked"]
    ELSE IF Head(keys) \notin DOMAIN json.dict THEN [type |-> "missing"]
    ELSE At(json.dict[Head(keys)], Tail(keys))

Listing(json, route) == At(json, <<"MRData">> \o Envelope(route))

LacksLevel(json, route) ==
    \/ Listing(json, route).type = "missing"
    \/ /\ route = "race_results"
       /\ Listing(json, route).type = "list"
       /\ Len(Listing(json, route).list) > 0
       /\ At(Listing(json, route).list[1], <<"Results">>).type = "missing"

MissingLevelIsEmpty(x) ==
    (ServedData(x) /\ UpstreamStatus(x, TRUE)
     /\ LacksLevel(UpstreamReply(x).json, x.route)) =>
        /\ x.response.status_code = 200
        /\ x.response.body.count = 0
        /\ x.response.body.items = <<>>

\* C6: on every data endpoint a 200 from upstream that lacks a level of the
\* envelope (MRData, the table, the list, or the first race's Results) is
\* answered with count 0 and items [], not with a failure.
C6_MissingLevelIsEmpty == Every(MissingLevelIsEmpty)

DiagnosticsNameTheDatabase(x) ==
    (IsDone(x) /\ x.route = "test_database" /\ db.type = "Database"
     /\ x.response.body.database = "U+2705 Connected & Working") =>
        /\ x.response.body.database_name = db.name
        /\ Len(x.response.body.collections) <= 10

\* C7: with a storage handle present and the inspection succeeding, GET /test
\* reports the name of the connected database in database_name and at most
\* 10 collection names in collections.
C7_DiagnosticsNameTheDatabase == Every(DiagnosticsNameTheDatabase)

AllStr(items) ==
    \A i \in 1..Len(items) :
        "_id" \in DOMAIN items[i] => items[i]["_id"].type = "str"

IdentifiersAreStrings(x) ==
    (ToFavorites(x, "drivers") \/ ToFavorites(x, "constructors")) =>
        /\ "id" \in DOMAIN x.response.body => x.response.body.id.type = "str"
        /\ "items" \in DOMAIN x.response.body => AllStr(x.response.body.items)

\* C8: no raw identifier reaches a client: the id of every insert response
\* is a string, and so is the _id of every record the listing handlers
\* return, whatever the collections hold.
C8_IdentifiersAreStrings ==
    /\ Every(IdentifiersAreStrings)
    /\ AllStr(get_favorite_drivers.value.items)
    /\ AllStr(get_favorite_constructors.value.items)

SecondInsert(x) ==
    /\ ToFavorites(x, "constructors") /\ x.request.method = "POST"
    /\ x.response.status_code = 200
    /\ x.response.body.id = [type |-> "str", value |-> "000000000000000000000002"]
    /\ get_favorite_constructors.value.items[1]["_id"] = x.response.body.id

\* the first insert is stored and its response is not written yet
FirstUnanswered(x) ==
    /\ IsReturned(x) /\ x.route = "add_favorite_driver"
    /\ x.result.value.id = [type |-> "str", value |-> "000000000000000000000001"]

C8_Witness ==
    /\ Some(SecondInsert)
    /\ Some(FirstUnanswered)
    /\ Len(favoritedriver) = 1 /\ Len(favoriteconstructor) = 1
    /\ favoriteconstructor[1]["_id"].type = "ObjectId"
    /\ get_favorite_drivers.value.items[1]["_id"].type = "str"

NoRaceIsNoResult(x) ==
    (ServedBy(x, {"race_results"}) /\ UpstreamStatus(x, TRUE)
     /\ Listing(UpstreamReply(x).json, "race_results").type = "list"
     /\ Len(Listing(UpstreamReply(x).json, "race_results").list) = 0) =>
        x.response =
            [status_code |-> 200,
             body |-> [season |-> ReqSeason(x), round |-> ReqRound(x), count |-> 0,
                       items |-> <<>>]]

\* C9: race results whose upstream 200 holds an empty race list answer
\* {season, round, count: 0, items: []}, without an offline key and without
\* an error.
C9_NoRaceIsNoResult == Every(NoRaceIsNoResult)

NoRace(x) ==
    /\ ServedBy(x, {"race_results"}) /\ UpstreamStatus(x, TRUE)
    /\ UpstreamReply(x).json =
           JDict([MRData |-> JDict([RaceTable |-> JDict([Races |-> JList(<<>>)])])])
    /\ x.request.path = Segments(<<"api", "2024", "22", "results">>)
    /\ x.response.status_code = 200
    /\ x.response.body = [season |-> 2024, round |-> 22, count |-> 0, items |-> <<>>]

C9_Witness == Some(NoRace)

OneUpstreamCall(x) ==
    /\ ServedData(x) => Len(x.upstream) = 1
    /\ (IsReturned(x) /\ x.route \in DataRoutes) => Len(x.upstream) = 1
    /\ (IsWaiting(x) /\ x.route \in DataRoutes) => Len(x.sent) = 1
    /\ (IsRunning(x) /\ x.route \in DataRoutes) => Len(x.sent) = 0
    /\ (ToFavorites(x, "drivers") \/ ToFavorites(x, "constructors")) =>
           Len(x.upstream) = 0
    /\ (IsReturned(x) /\ x.route \in FavoriteRoutes) => Len(x.upstream) = 0
    /\ (IsRunning(x) /\ x.route \in FavoriteRoutes) => Len(x.sent) = 0

\* C10: a request served by a data endpoint makes exactly one call to
\* ergast.com, whether the call succeeds, fails with a status or never
\* arrives; a request to a favorites endpoint makes none.
C10_OneUpstreamCall == Every(OneUpstreamCall)

RacesOffline(x) ==
    /\ ServedBy(x, {"list_races"}) /\ UpstreamUnreachable(x)
    /\ Len(x.upstream) = 1
    /\ x.upstream[1].request.url = "https://ergast.com/api/f1/2024.json.json"
    /\ x.response.body.offline = TRUE

RunningPost(x) == IsRunning(x) /\ x.route = "add_favorite_constructor"

C10_Witness == Some(RacesOffline) /\ Some(RunningPost) /\ Len(posted) = 1

====
